---- MODULE Spec2Model ----
(***************************************************************************)
(* Authorization core of fastapi-sso-auth-system: API-key lifecycle,       *)
(* credential resolution (bearer token / API key), the permission and      *)
(* role checkers and the OAuth reconcile step, modelled from               *)
(* app/api/deps.py, app/services, app/crud and app/core/security.py.       *)
(*                                                                         *)
(* Time is a discrete clock `now` (datetime.utcnow()).  The value 0 stands *)
(* for Python's None in every optional field (expires_at, last_used_at, a  *)
(* missing header, an absent principal); the clock starts at 1.            *)
(***************************************************************************)
EXTENDS Integers, FiniteSets, Sequences, TLC

\* ---------------------------------------------------------------- bounds
MaxTime == 3
MaxKeys == 2
AuthMaxKeys == 1
MaxTokens == 1
MinutesPerTick == 30
MaxCalls == 2
MaxRoleList == 3

\* ------------------------------------------------------ program constants
ACCESS_TOKEN_EXPIRE_MINUTES == 30
HTTP_401_UNAUTHORIZED == 401
HTTP_403_FORBIDDEN == 403
HTTP_404_NOT_FOUND == 404
\* status recorded for a handler that returned normally
HTTP_200_OK == 200
HTTP_400_BAD_REQUEST == 400

None == 0
UserIds == {1, 2}
Roles == {"admin", "user"}
Perms == {"users:write", "users:delete"}
\* expires_at values a client may send in APIKeyCreate (None or an instant)
ExpiryInputs == {None, 2}
\* the opaque string of the key with primary key i (unique per key)
KeyString(i) == 100 + i
\* X-API-Key header values: absent, the string of a key id, or a string no key has
UnknownKeyString == 100
KeyInputs == {None, UnknownKeyString} \cup {KeyString(i) : i \in 1 .. MaxKeys}
\* the header values of the specifications that hold at most AuthMaxKeys keys
AuthKeyInputs == {None, UnknownKeyString} \cup {KeyString(i) : i \in 1 .. AuthMaxKeys}

VARIABLES users, rolePerms, keys, nextKeyId, tokens, now, resp, createdBy,
          oauth_accounts, calls, logins

vars == <<users, rolePerms, keys, nextKeyId, tokens, now, resp, createdBy,
          oauth_accounts, calls, logins>>

\* the external-identity side of the store, untouched by key and token operations
oauth_vars == <<oauth_accounts, calls, logins>>

\* ------------------------------------------------------------ seeded data
\* create_roles: the roles and, of the modelled permissions, those they hold
SeededRoles == [r \in Roles |-> IF r = "admin" THEN Perms ELSE {}]

\* create_test_users: admin@example.com (superuser, role admin) and
\* user@example.com (role user)
SeededUsers ==
    [u \in UserIds |->
        IF u = 1
        THEN [email |-> "admin@example.com", is_active |-> TRUE,
              is_superuser |-> TRUE, roles |-> {"admin"}]
        ELSE [email |-> "user@example.com", is_active |-> TRUE,
              is_superuser |-> FALSE, roles |-> {"user"}]]

\* a reconcile call that is not running
IdleCall == [pc |-> "idle", provider |-> "", email |-> "", tok |-> <<None, None, None>>,
             user |-> None, oauth_account |-> None]

\* ---------------------------------------------------------------- tokens
\* A bearer credential.  present = FALSE is the missing Authorization header.
\* sig: signed with SECRET_KEY under ALGORITHM and well formed.
\* subStr: the "sub" claim is a JSON string (create_user_token stores user.id,
\* an int, so the tokens it issues have subStr = FALSE).
NoToken == [present |-> FALSE, sig |-> FALSE, sub |-> None, subStr |-> FALSE,
            email |-> "", roles |-> {}, permissions |-> {}, exp |-> None]

\* settings.ACCESS_TOKEN_EXPIRE_MINUTES in clock ticks
TokenTTL == ACCESS_TOKEN_EXPIRE_MINUTES \div MinutesPerTick

\* Bearer tokens that were not issued by create_user_token: strings signed
\* with SECRET_KEY under ALGORITHM whose subject is a JSON string.
SignedTokens(subs, roleSets, permSets, exps) ==
    {[present |-> TRUE, sig |-> TRUE, sub |-> u, subStr |-> TRUE,
      email |-> "", roles |-> rs, permissions |-> ps, exp |-> e] :
        u \in subs, rs \in roleSets, ps \in permSets, e \in exps}

\* a malformed, unsigned or wrongly signed bearer string
GarbageToken == [present |-> TRUE, sig |-> FALSE, sub |-> 1, subStr |-> TRUE,
                 email |-> "", roles |-> {"admin"}, permissions |-> Perms, exp |-> MaxTime]

\* ------------------------------------------------------------- responses
\* The outcome of the most recent call together with its inputs; body is the
\* serialized payload of an endpoint that returns records (empty otherwise).
Response(op, status, detail, hdr, user, keyid, ids, inKey, inTok, inCaller, inId, inReq) ==
    [op |-> op, status |-> status, detail |-> detail, hdr |-> hdr,
     user |-> user, keyid |-> keyid, ids |-> ids,
     in_key |-> inKey, in_tok |-> inTok, in_caller |-> inCaller,
     in_id |-> inId, in_req |-> inReq, body |-> {}]

NoResponse == Response("none", HTTP_200_OK, "", "", None, None, {}, None, NoToken, None, None, {})

\* ----------------------------------------------------------- store: keys
\* CRUDAPIKey.get_by_key: the key record whose key column equals the string
get_by_key(key) ==
    LET hits == {i \in DOMAIN keys : keys[i].key = key}
    IN  IF hits = {} THEN None ELSE CHOOSE i \in hits : TRUE

get_by_user_all(user_id) == DOMAIN keys

\* CRUDAPIKey.get_by_user
get_by_user(user_id) == {i \in DOMAIN keys : keys[i].user_id = user_id}

is_valid_ignoring_expiry(k, t) == k.is_active

\* CRUDAPIKey.is_valid at time t
is_valid(k, t) ==
    IF ~k.is_active THEN FALSE
    ELSE IF k.expires_at # None /\ k.expires_at < t THEN FALSE
    ELSE TRUE

\* CRUDAPIKey.update_last_used
update_last_used(i) == [keys EXCEPT ![i].last_used_at = now]

\* APIKeyService.validate_api_key: the id of the returned key, or None
validate_api_key(key) ==
    LET api_key == get_by_key(key)
    IN  IF api_key = None THEN None
        ELSE IF ~is_valid(keys[api_key], now) THEN None
        ELSE api_key

\* the store after validate_api_key(key)
keys_after_validate(key) ==
    IF validate_api_key(key) = None THEN keys
    ELSE update_last_used(validate_api_key(key))

\* CRUDBase.get: the record with this primary key, or None
get(id) == IF id \in DOMAIN keys THEN id ELSE None

\* CRUDBase.remove: the store without the record with this primary key
remove(id) == [j \in DOMAIN keys \ {id} |-> keys[j]]

owned_any(api_key_id, user_id) == get(api_key_id) # None

\* the ownership re-check of APIKeyService.get/delete/toggle:
\* negation of `not api_key or api_key.user_id != user_id`
owned(api_key_id, user_id) ==
    LET api_key == get(api_key_id)
    IN  ~(api_key = None \/ keys[api_key].user_id # user_id)

\* the filtered query of the ad hoc router handlers:
\* filter(APIKey.id == api_key_id, APIKey.user_id == current_user.id).first()
router_owned(api_key_id, user_id) ==
    \E i \in DOMAIN keys : i = api_key_id /\ keys[i].user_id = user_id

NotFound(op, caller, id) ==
    Response(op, HTTP_404_NOT_FOUND, "API key not found", "", None, None, {},
             None, NoToken, caller, id, {})

Found(op, caller, id) ==
    Response(op, HTTP_200_OK, "", "", None, id, {}, None, NoToken, caller, id, {})

\* db.delete(api_key); db.commit()
Without(f, i) == [j \in DOMAIN f \ {i} |-> f[j]]

\* ------------------------------------------------- users, roles, tokens
\* User.permissions / the aggregation loop of create_user_token
user_permissions_of(u) == UNION {rolePerms[r] : r \in users[u].roles}

\* the elements of a list
Range(l) == {l[i] : i \in DOMAIN l}

\* list(S) of a Python set S: every element once, in an unspecified order
ListsOf(S) == {l \in [1 .. Cardinality(S) -> S] : Range(l) = S}

\* user.roles as the relationship loads it: role names in any order; a role
\* may occur more than once
RoleLists == UNION {[1 .. n -> Roles] : n \in 0 .. MaxRoleList}

\* role.permissions as the relationship loads it, for every role: the stored
\* permissions of the role in some order
RolePermissionLists ==
    {f \in [Roles -> UNION {ListsOf(S) : S \in SUBSET Perms}] :
        \A r \in Roles : f[r] \in ListsOf(rolePerms[r])}

\* the nested loop of create_user_token:
\* for role in user.roles: for perm in role.permissions: permissions.add(perm.name)
RECURSIVE add_all(_, _)
add_all(permissions, role_permissions) ==
    IF role_permissions = <<>> THEN permissions
    ELSE add_all(permissions \cup {Head(role_permissions)}, Tail(role_permissions))

RECURSIVE collect_permissions(_, _, _)
collect_permissions(permissions, roles, role_permissions) ==
    IF roles = <<>> THEN permissions
    ELSE collect_permissions(add_all(permissions, role_permissions[Head(roles)]),
                             Tail(roles), role_permissions)

\* "permissions": list(permissions) in create_user_token: the lists it may embed
token_permissions(roles, role_permissions) ==
    ListsOf(collect_permissions({}, roles, role_permissions))

\* the loop of User.permissions: for role in self.roles: perms.extend(role.permissions)
RECURSIVE extend_permissions(_, _, _)
extend_permissions(perms, roles, role_permissions) ==
    IF roles = <<>> THEN perms
    ELSE extend_permissions(perms \o role_permissions[Head(roles)],
                            Tail(roles), role_permissions)

User_permissions_extended(roles, role_permissions) ==
    {extend_permissions(<<>>, roles, role_permissions)}

\* User.permissions: list(set(perms)), the lists it may return
User_permissions(roles, role_permissions) ==
    ListsOf(Range(extend_permissions(<<>>, roles, role_permissions)))

\* AuthService.create_user_token -> create_access_token: the claims record
create_user_token(u) ==
    [present |-> TRUE, sig |-> TRUE, sub |-> u, subStr |-> FALSE,
     email |-> users[u].email, roles |-> users[u].roles, permissions |-> user_permissions_of(u),
     exp |-> now + TokenTTL]

\* jose.jwt.decode(token, SECRET_KEY, algorithms=[ALGORITHM]) succeeds: the
\* signature verifies, exp is not before the current time, and the registered
\* claim "sub", when present, is a string; otherwise it raises a JWTError
\* (JWSError, ExpiredSignatureError, JWTClaimsError).
decode_ok(t) ==
    /\ t.sig
    /\ ~(t.exp < now)
    /\ (t.sub # None => t.subStr)

\* the claims of a token as a decoded payload
Payload(t) == [sub |-> t.sub, email |-> t.email, roles |-> t.roles,
               permissions |-> t.permissions, exp |-> t.exp]

\* decode_access_token(token) at the current time: the payload, or the
\* JWTError jose raises.  jwt.decode verifies the signature first, then
\* validates exp (expired when exp < now), then the type of "sub".
decode_access_token(t) ==
    IF ~t.sig THEN [kind |-> "raise", error |-> "JWSError", payload |-> {}]
    ELSE IF t.exp < now
         THEN [kind |-> "raise", error |-> "ExpiredSignatureError", payload |-> {}]
    ELSE IF t.sub # None /\ ~t.subStr
         THEN [kind |-> "raise", error |-> "JWTClaimsError", payload |-> {}]
    ELSE [kind |-> "return", error |-> "", payload |-> {Payload(t)}]

\* what a resolver or checker hands back: a return value or a raised HTTPException
Return(user) == [kind |-> "return", user |-> user, status |-> HTTP_200_OK,
                 detail |-> "", hdr |-> ""]
Raise(status, detail, hdr) == [kind |-> "raise", user |-> None, status |-> status,
                               detail |-> detail, hdr |-> hdr]

\* AuthService.verify_user_active raises for this user
inactive(u) == ~users[u].is_active

\* get_current_user_from_jwt
get_current_user_from_jwt(credentials) ==
    IF ~credentials.present THEN Return(None)
    ELSE IF ~decode_ok(credentials) THEN Return(None)              \* except JWTError
    ELSE IF credentials.sub = None THEN Return(None)
    ELSE IF credentials.sub \notin DOMAIN users THEN Return(None)  \* first() is None
    ELSE IF inactive(credentials.sub) THEN Return(None)            \* except HTTPException
    ELSE Return(credentials.sub)

\* get_current_user_from_apikey
get_current_user_from_apikey(api_key) ==
    IF api_key = None THEN Return(None)
    ELSE LET api_key_obj == validate_api_key(api_key)
         IN  IF api_key_obj = None THEN Return(None)
             ELSE IF keys[api_key_obj].user_id = None THEN Return(None)
             ELSE IF keys[api_key_obj].user_id \notin DOMAIN users THEN Return(None)
             ELSE IF inactive(keys[api_key_obj].user_id)
                  THEN Raise(HTTP_403_FORBIDDEN, "Inactive user", "")
             ELSE Return(keys[api_key_obj].user_id)

\* get_current_user_jwt_required
get_current_user_jwt_required(credentials) ==
    IF ~credentials.present
    THEN Raise(HTTP_401_UNAUTHORIZED, "JWT token required", "Bearer")
    ELSE LET r == get_current_user_from_jwt(credentials)
         IN  IF r.kind = "raise" THEN r
             ELSE IF r.user = None
                  THEN Raise(HTTP_401_UNAUTHORIZED, "Could not validate credentials", "Bearer")
             ELSE r

\* get_current_user_apikey_required
get_current_user_apikey_required(api_key) ==
    IF api_key = None
    THEN Raise(HTTP_401_UNAUTHORIZED, "API key required", "ApiKey")
    ELSE LET r == get_current_user_from_apikey(api_key)
         IN  IF r.kind = "raise" THEN r
             ELSE IF r.user = None
                  THEN Raise(HTTP_401_UNAUTHORIZED, "Invalid or expired API key", "")
             ELSE r

\* get_current_user_either
get_current_user_either(credentials, api_key) ==
    LET k == IF api_key # None THEN get_current_user_from_apikey(api_key) ELSE Return(None)
        j == IF credentials.present THEN get_current_user_from_jwt(credentials)
             ELSE Return(None)
    IN  IF k.kind = "raise" THEN k
        ELSE IF k.user # None THEN k
        ELSE IF j.kind = "raise" THEN j
        ELSE IF j.user # None THEN j
        ELSE Raise(HTTP_401_UNAUTHORIZED, "Valid JWT token or API key required", "")

\* ------------------------------------------------------ access control
key_permissions_with_owner(i) ==
    keys[i].permissions \cup UNION {rolePerms[r] : r \in keys[i].roles}
        \cup UNION {rolePerms[r] : r \in users[keys[i].user_id].roles}

\* the key-derived permission set of permission_checker: direct permissions
\* and the permissions of every role attached to the key
key_permissions(i) ==
    keys[i].permissions \cup UNION {rolePerms[r] : r \in keys[i].roles}

effective_permissions_unioned(credentials, api_key) ==
    LET api_key_obj == IF api_key # None THEN validate_api_key(api_key) ELSE None
        from_key == IF api_key_obj # None THEN key_permissions(api_key_obj) ELSE {}
        from_jwt == IF credentials.present
                    THEN IF decode_ok(credentials) THEN credentials.permissions ELSE {}
                    ELSE {}
    IN  from_key \cup from_jwt

\* user_permissions as built by permission_checker before the final test
effective_permissions(credentials, api_key) ==
    LET api_key_obj == IF api_key # None THEN validate_api_key(api_key) ELSE None
        from_key == IF api_key_obj # None THEN key_permissions(api_key_obj) ELSE {}
        from_jwt == IF credentials.present /\ from_key = {}
                    THEN IF decode_ok(credentials) THEN credentials.permissions
                         ELSE {}                                   \* except JWTError: pass
                    ELSE {}
    IN  from_key \cup from_jwt

\* user_roles as built by role_checker before the final test
effective_roles(credentials, api_key) ==
    LET api_key_obj == IF api_key # None THEN validate_api_key(api_key) ELSE None
        from_key == IF api_key_obj # None THEN keys[api_key_obj].roles ELSE {}
        from_jwt == IF credentials.present /\ from_key = {}
                    THEN IF decode_ok(credentials) THEN credentials.roles
                         ELSE {}                                   \* except JWTError: pass
                    ELSE {}
    IN  from_key \cup from_jwt

permission_checker_any(required_permissions, credentials, api_key) ==
    LET user_permissions == effective_permissions(credentials, api_key)
    IN  IF ~(\E perm \in required_permissions : perm \in user_permissions)
        THEN Raise(HTTP_403_FORBIDDEN, "Missing required permissions", "")
        ELSE Return(None)

\* require_permissions(required_permissions).permission_checker
permission_checker(required_permissions, credentials, api_key) ==
    LET user_permissions == effective_permissions(credentials, api_key)
    IN  IF ~(\A perm \in required_permissions : perm \in user_permissions)
        THEN Raise(HTTP_403_FORBIDDEN, "Missing required permissions", "")
        ELSE Return(None)

role_checker_all(required_roles, credentials, api_key) ==
    LET user_roles == effective_roles(credentials, api_key)
    IN  IF ~(\A role \in required_roles : role \in user_roles)
        THEN Raise(HTTP_403_FORBIDDEN, "Missing required roles", "")
        ELSE Return(None)

\* require_roles(required_roles).role_checker
role_checker(required_roles, credentials, api_key) ==
    LET user_roles == effective_roles(credentials, api_key)
    IN  IF ~(\E role \in required_roles : role \in user_roles)
        THEN Raise(HTTP_403_FORBIDDEN, "Missing required roles", "")
        ELSE Return(None)

\* the store after a resolver that takes the key path with this header value
keys_after_key_path(api_key) ==
    IF api_key = None THEN keys ELSE keys_after_validate(api_key)

ResolverResponse(op, r, credentials, api_key) ==
    Response(op, r.status, r.detail, r.hdr, r.user, None, {},
             api_key, credentials, None, None, {})

\* -------------------------------------------------------------- actions
Tick ==
    /\ now < MaxTime
    /\ now' = now + 1
    /\ resp' = NoResponse
    /\ UNCHANGED <<users, rolePerms, keys, nextKeyId, tokens, createdBy, oauth_vars>>

\* APIKeyService.create_api_key -> CRUDAPIKey.create_with_roles_permissions
create_api_key(user_id, expires_at, role_ids, permission_ids) ==
    /\ nextKeyId <= MaxKeys
    /\ LET id == nextKeyId
           db_obj == [user_id |-> user_id, key |-> KeyString(id), is_active |-> TRUE,
                      expires_at |-> expires_at, last_used_at |-> None,
                      roles |-> role_ids, permissions |-> permission_ids]
       IN  /\ keys' = [j \in DOMAIN keys \cup {id} |-> IF j = id THEN db_obj ELSE keys[j]]
           /\ createdBy' = [j \in DOMAIN createdBy \cup {id} |->
                               IF j = id THEN user_id ELSE createdBy[j]]
           /\ resp' = Found("create_api_key", user_id, id)
    /\ nextKeyId' = nextKeyId + 1
    /\ UNCHANGED <<users, rolePerms, tokens, now, oauth_vars>>

\* APIKeyService.get_user_api_keys
get_user_api_keys(user_id) ==
    /\ resp' = Response("get_user_api_keys", HTTP_200_OK, "", "", None, None,
                        get_by_user(user_id), None, NoToken, user_id, None, {})
    /\ UNCHANGED <<users, rolePerms, keys, nextKeyId, tokens, now, createdBy, oauth_vars>>

\* response_model=List[APIKeyListResponse] with from_attributes: every field
\* the schema names is copied from the record (name, description and
\* created_at are not part of the modelled record)
APIKeyListResponse(i) ==
    [id |-> i, key |-> keys[i].key, is_active |-> keys[i].is_active,
     expires_at |-> keys[i].expires_at, last_used_at |-> keys[i].last_used_at]

\* GET /api-keys/: list_api_keys
list_api_keys(current_user) ==
    /\ resp' = [Response("list_api_keys", HTTP_200_OK, "", "", None, None,
                         get_by_user(current_user), None, NoToken, current_user, None, {})
                   EXCEPT !.body = {APIKeyListResponse(i) : i \in get_by_user(current_user)}]
    /\ UNCHANGED <<users, rolePerms, keys, nextKeyId, tokens, now, createdBy, oauth_vars>>

\* APIKeyService.get_api_key
get_api_key(api_key_id, user_id) ==
    /\ resp' = IF ~owned(api_key_id, user_id)
               THEN NotFound("get_api_key", user_id, api_key_id)
               ELSE Found("get_api_key", user_id, api_key_id)
    /\ UNCHANGED <<users, rolePerms, keys, nextKeyId, tokens, now, createdBy, oauth_vars>>

api_key_crud_deactivate_flipping(ks, i) == [ks EXCEPT ![i].is_active = ~@]

\* CRUDAPIKey.deactivate on the store ks
api_key_crud_deactivate(ks, i) == [ks EXCEPT ![i].is_active = FALSE]

\* CRUDAPIKey.activate on the store ks
api_key_crud_activate(ks, i) == [ks EXCEPT ![i].is_active = TRUE]

delete_api_key_soft(api_key_id, user_id) ==
    /\ IF ~owned(api_key_id, user_id)
       THEN /\ resp' = NotFound("delete_api_key", user_id, api_key_id)
            /\ keys' = keys
       ELSE /\ resp' = Response("delete_api_key", HTTP_200_OK, "", "", None, None, {},
                                None, NoToken, user_id, api_key_id, {})
            /\ keys' = api_key_crud_deactivate(keys, api_key_id)
    /\ UNCHANGED <<users, rolePerms, nextKeyId, tokens, now, createdBy, oauth_vars>>

\* APIKeyService.delete_api_key
delete_api_key(api_key_id, user_id) ==
    /\ IF ~owned(api_key_id, user_id)
       THEN /\ resp' = NotFound("delete_api_key", user_id, api_key_id)
            /\ keys' = keys
       ELSE /\ resp' = Response("delete_api_key", HTTP_200_OK, "", "", None, None, {},
                                None, NoToken, user_id, api_key_id, {})
            /\ keys' = remove(api_key_id)
    /\ UNCHANGED <<users, rolePerms, nextKeyId, tokens, now, createdBy, oauth_vars>>

\* APIKeyService.toggle_api_key -> CRUDAPIKey.activate / deactivate
toggle_api_key(api_key_id, user_id, activate) ==
    /\ IF ~owned(api_key_id, user_id)
       THEN /\ resp' = NotFound("toggle_api_key", user_id, api_key_id)
            /\ keys' = keys
       ELSE /\ resp' = [Found("toggle_api_key", user_id, api_key_id)
                          EXCEPT !.in_req = {activate}]
            /\ keys' = IF activate THEN api_key_crud_activate(keys, api_key_id)
                       ELSE api_key_crud_deactivate(keys, api_key_id)
    /\ UNCHANGED <<users, rolePerms, nextKeyId, tokens, now, createdBy, oauth_vars>>

\* routers/api_keys.py get_api_key
router_get_api_key(api_key_id, current_user) ==
    /\ resp' = IF ~router_owned(api_key_id, current_user)
               THEN NotFound("router_get_api_key", current_user, api_key_id)
               ELSE Found("router_get_api_key", current_user, api_key_id)
    /\ UNCHANGED <<users, rolePerms, keys, nextKeyId, tokens, now, createdBy, oauth_vars>>

\* routers/api_keys.py delete_api_key
router_delete_api_key(api_key_id, current_user) ==
    /\ IF ~router_owned(api_key_id, current_user)
       THEN /\ resp' = NotFound("router_delete_api_key", current_user, api_key_id)
            /\ keys' = keys
       ELSE /\ resp' = Response("router_delete_api_key", HTTP_200_OK, "", "", None, None,
                                {}, None, NoToken, current_user, api_key_id, {})
            /\ keys' = Without(keys, api_key_id)
    /\ UNCHANGED <<users, rolePerms, nextKeyId, tokens, now, createdBy, oauth_vars>>

\* routers/api_keys.py deactivate_api_key
router_deactivate_api_key(api_key_id, current_user) ==
    /\ IF ~router_owned(api_key_id, current_user)
       THEN /\ resp' = NotFound("router_deactivate_api_key", current_user, api_key_id)
            /\ keys' = keys
       ELSE /\ resp' = Found("router_deactivate_api_key", current_user, api_key_id)
            /\ keys' = [keys EXCEPT ![api_key_id].is_active = FALSE]
    /\ UNCHANGED <<users, rolePerms, nextKeyId, tokens, now, createdBy, oauth_vars>>

\* routers/api_keys.py activate_api_key
router_activate_api_key(api_key_id, current_user) ==
    /\ IF ~router_owned(api_key_id, current_user)
       THEN /\ resp' = NotFound("router_activate_api_key", current_user, api_key_id)
            /\ keys' = keys
       ELSE /\ resp' = Found("router_activate_api_key", current_user, api_key_id)
            /\ keys' = [keys EXCEPT ![api_key_id].is_active = TRUE]
    /\ UNCHANGED <<users, rolePerms, nextKeyId, tokens, now, createdBy, oauth_vars>>

\* a direct call of APIKeyService.validate_api_key(db, key)
call_validate_api_key(key) ==
    /\ resp' = Response("validate_api_key", HTTP_200_OK, "", "", None,
                        validate_api_key(key), {}, key, NoToken, None, None, {})
    /\ keys' = keys_after_validate(key)
    /\ UNCHANGED <<users, rolePerms, nextKeyId, tokens, now, createdBy, oauth_vars>>

\* the admin action that flips a principal's active flag
set_user_active(u, b) ==
    /\ users' = [users EXCEPT ![u].is_active = b]
    /\ resp' = NoResponse
    /\ UNCHANGED <<rolePerms, keys, nextKeyId, tokens, now, createdBy, oauth_vars>>

\* the login callbacks: access_token = AuthService.create_user_token(user)
issue_token(u) ==
    /\ Cardinality(tokens) < MaxTokens
    /\ tokens' = tokens \cup {create_user_token(u)}
    /\ resp' = Response("create_user_token", HTTP_200_OK, "", "", u, None, {},
                        None, create_user_token(u), None, None, {})
    /\ UNCHANGED <<users, rolePerms, keys, nextKeyId, now, createdBy, oauth_vars>>

\* a direct call of decode_access_token(token); a raised JWTError is
\* recorded by its class name with status 0
call_decode_access_token(t) ==
    /\ LET r == decode_access_token(t)
       IN  resp' = [Response("decode_access_token",
                             IF r.kind = "return" THEN HTTP_200_OK ELSE None,
                             r.error, "", None, None, {}, None, t, None, None, {})
                       EXCEPT !.body = r.payload]
    /\ UNCHANGED <<users, rolePerms, keys, nextKeyId, tokens, now, createdBy, oauth_vars>>

\* create_user_token builds the "permissions" claim of a user whose roles
\* load as the list roles
call_token_permissions(roles, role_permissions, out) ==
    /\ out \in token_permissions(roles, role_permissions)
    /\ resp' = [Response("create_user_token.permissions", HTTP_200_OK, "", "", None, None,
                         {}, None, NoToken, None, None, {roles})
                   EXCEPT !.body = {out}]
    /\ UNCHANGED <<users, rolePerms, keys, nextKeyId, tokens, now, createdBy, oauth_vars>>

\* the property User.permissions is read on a user whose roles load as the
\* list roles
call_User_permissions(roles, role_permissions, out) ==
    /\ out \in User_permissions(roles, role_permissions)
    /\ resp' = [Response("User.permissions", HTTP_200_OK, "", "", None, None,
                         {}, None, NoToken, None, None, {roles})
                   EXCEPT !.body = {out}]
    /\ UNCHANGED <<users, rolePerms, keys, nextKeyId, tokens, now, createdBy, oauth_vars>>

\* a request resolved by the optional dependency get_current_user_from_jwt
call_get_current_user_from_jwt(credentials) ==
    /\ resp' = ResolverResponse("get_current_user_from_jwt",
                                get_current_user_from_jwt(credentials), credentials, None)
    /\ UNCHANGED <<users, rolePerms, keys, nextKeyId, tokens, now, createdBy, oauth_vars>>

\* a request resolved by the optional dependency get_current_user_from_apikey
call_get_current_user_from_apikey(api_key) ==
    /\ resp' = ResolverResponse("get_current_user_from_apikey",
                                get_current_user_from_apikey(api_key), NoToken, api_key)
    /\ keys' = keys_after_key_path(api_key)
    /\ UNCHANGED <<users, rolePerms, nextKeyId, tokens, now, createdBy, oauth_vars>>

\* a request to an endpoint depending on get_current_user_jwt_required
call_get_current_user_jwt_required(credentials) ==
    /\ resp' = ResolverResponse("get_current_user_jwt_required",
                                get_current_user_jwt_required(credentials), credentials, None)
    /\ UNCHANGED <<users, rolePerms, keys, nextKeyId, tokens, now, createdBy, oauth_vars>>

\* a request to an endpoint depending on get_current_user_apikey_required
call_get_current_user_apikey_required(api_key) ==
    /\ resp' = ResolverResponse("get_current_user_apikey_required",
                                get_current_user_apikey_required(api_key), NoToken, api_key)
    /\ keys' = keys_after_key_path(api_key)
    /\ UNCHANGED <<users, rolePerms, nextKeyId, tokens, now, createdBy, oauth_vars>>

\* a request to an endpoint depending on get_current_user_either
call_get_current_user_either(credentials, api_key) ==
    /\ resp' = ResolverResponse("get_current_user_either",
                                get_current_user_either(credentials, api_key),
                                credentials, api_key)
    /\ keys' = keys_after_key_path(api_key)
    /\ UNCHANGED <<users, rolePerms, nextKeyId, tokens, now, createdBy, oauth_vars>>

\* a request passing through Depends(require_permissions(required_permissions))
call_permission_checker(required_permissions, credentials, api_key) ==
    /\ LET r == permission_checker(required_permissions, credentials, api_key)
       IN  resp' = Response("permission_checker", r.status, r.detail, r.hdr, None, None, {},
                            api_key, credentials, None, None, required_permissions)
    /\ keys' = keys_after_key_path(api_key)
    /\ UNCHANGED <<users, rolePerms, nextKeyId, tokens, now, createdBy, oauth_vars>>

\* a request passing through Depends(require_roles(required_roles))
call_role_checker(required_roles, credentials, api_key) ==
    /\ LET r == role_checker(required_roles, credentials, api_key)
       IN  resp' = Response("role_checker", r.status, r.detail, r.hdr, None, None, {},
                            api_key, credentials, None, None, required_roles)
    /\ keys' = keys_after_key_path(api_key)
    /\ UNCHANGED <<users, rolePerms, nextKeyId, tokens, now, createdBy, oauth_vars>>

\* A route declared with dependencies=[Depends(checker)] and a parameter
\* current_user = Depends(get_current_user_either): FastAPI resolves the
\* route-level dependency first, and the first HTTPException ends the request.
guarded_endpoint(checked, credentials, api_key) ==
    IF checked.kind = "raise" THEN checked
    ELSE get_current_user_either(credentials, api_key)

EndpointResponse(op, r, credentials, api_key, required) ==
    [ResolverResponse(op, r, credentials, api_key) EXCEPT !.in_req = required]

\* GET /demo/admin-only
admin_only_endpoint(credentials, api_key) ==
    /\ resp' = EndpointResponse("admin_only_endpoint",
                    guarded_endpoint(role_checker({"admin"}, credentials, api_key),
                                     credentials, api_key),
                    credentials, api_key, {"admin"})
    /\ keys' = keys_after_key_path(api_key)
    /\ UNCHANGED <<users, rolePerms, nextKeyId, tokens, now, createdBy, oauth_vars>>

\* GET /demo/read-users-permission
read_users_permission_endpoint(credentials, api_key) ==
    /\ resp' = EndpointResponse("read_users_permission_endpoint",
                    guarded_endpoint(permission_checker({"users:read"}, credentials, api_key),
                                     credentials, api_key),
                    credentials, api_key, {"users:read"})
    /\ keys' = keys_after_key_path(api_key)
    /\ UNCHANGED <<users, rolePerms, nextKeyId, tokens, now, createdBy, oauth_vars>>

\* GET /demo/write-users-permission
write_users_permission_endpoint(credentials, api_key) ==
    /\ resp' = EndpointResponse("write_users_permission_endpoint",
                    guarded_endpoint(permission_checker({"users:write"}, credentials, api_key),
                                     credentials, api_key),
                    credentials, api_key, {"users:write"})
    /\ keys' = keys_after_key_path(api_key)
    /\ UNCHANGED <<users, rolePerms, nextKeyId, tokens, now, createdBy, oauth_vars>>

\* the relations among wanted that were attached before the call
Attached(held, wanted) == held \cap wanted

assign_role_to_user_strict(user_id, role) ==
    /\ users' = IF role \notin users[user_id].roles
                THEN [users EXCEPT ![user_id].roles = @ \cup {role}]
                ELSE users
    /\ resp' = Response("assign_role_to_user",
                        IF role \in users[user_id].roles THEN HTTP_400_BAD_REQUEST
                        ELSE HTTP_200_OK,
                        "", "", user_id, None,
                        Attached(users[user_id].roles, {role}),
                        None, NoToken, None, None, {role})
    /\ UNCHANGED <<rolePerms, keys, nextKeyId, tokens, now, createdBy, oauth_vars>>

\* UserService.assign_role_to_user -> CRUDUser.add_role
assign_role_to_user(user_id, role) ==
    /\ users' = IF role \notin users[user_id].roles
                THEN [users EXCEPT ![user_id].roles = @ \cup {role}]
                ELSE users
    /\ resp' = Response("assign_role_to_user", HTTP_200_OK, "", "", user_id, None,
                        Attached(users[user_id].roles, {role}),
                        None, NoToken, None, None, {role})
    /\ UNCHANGED <<rolePerms, keys, nextKeyId, tokens, now, createdBy, oauth_vars>>

\* UserService.remove_role_from_user -> CRUDUser.remove_role
remove_role_from_user(user_id, role) ==
    /\ users' = IF role \in users[user_id].roles
                THEN [users EXCEPT ![user_id].roles = @ \ {role}]
                ELSE users
    /\ resp' = Response("remove_role_from_user", HTTP_200_OK, "", "", user_id, None,
                        Attached(users[user_id].roles, {role}),
                        None, NoToken, None, None, {role})
    /\ UNCHANGED <<rolePerms, keys, nextKeyId, tokens, now, createdBy, oauth_vars>>

\* add_permission_to_role -> CRUDRole.add_permission
add_permission(role, permission) ==
    /\ rolePerms' = IF permission \notin rolePerms[role]
                    THEN [rolePerms EXCEPT ![role] = @ \cup {permission}]
                    ELSE rolePerms
    /\ resp' = Response("add_permission", HTTP_200_OK, "", "", None, None,
                        Attached(rolePerms[role], {permission}),
                        None, NoToken, None, None, {role, permission})
    /\ UNCHANGED <<users, keys, nextKeyId, tokens, now, createdBy, oauth_vars>>

\* CRUDRole.remove_permission
remove_permission(role, permission) ==
    /\ rolePerms' = IF permission \in rolePerms[role]
                    THEN [rolePerms EXCEPT ![role] = @ \ {permission}]
                    ELSE rolePerms
    /\ resp' = Response("remove_permission", HTTP_200_OK, "", "", None, None,
                        Attached(rolePerms[role], {permission}),
                        None, NoToken, None, None, {role, permission})
    /\ UNCHANGED <<users, keys, nextKeyId, tokens, now, createdBy, oauth_vars>>

\* --------------------------------------------------- external identities
\* OAUTH_PROVIDER_GOOGLE, OAUTH_PROVIDER_GITHUB
Providers == {"google", "github"}

\* <<provider, normalized e-mail>> pairs delivered by the callbacks: the
\* address of a seeded principal from both providers, and an address no
\* seeded principal has
OAuthLogins == {<<"google", "admin@example.com">>, <<"github", "admin@example.com">>,
                <<"google", "new@example.com">>}

\* <<access_token, refresh_token, provider_data>> as passed by a callback;
\* the refresh token and the profile are optional (None)
OAuthTokens == {<<1, 11, 21>>, <<2, None, None>>}

\* primary key given to the next row of a table from which nothing is deleted
NewId(table) == Cardinality(DOMAIN table) + 1

get_by_email_never(email) == None

\* CRUDUser.get_by_email: filter(User.email == email).first()
get_by_email(email) ==
    LET hits == {u \in DOMAIN users : users[u].email = email}
    IN  IF hits = {} THEN None ELSE CHOOSE u \in hits : \A v \in hits : u <= v

\* CRUDUser.create_with_role: the users table after the insert
create_with_role(email, role_name) ==
    LET role == IF role_name \in DOMAIN rolePerms THEN role_name ELSE ""
        db_obj == [email |-> email, is_active |-> TRUE, is_superuser |-> FALSE,
                   roles |-> IF role # "" THEN {role} ELSE {}]
    IN  [u \in DOMAIN users \cup {NewId(users)} |->
            IF u = NewId(users) THEN db_obj ELSE users[u]]

\* db.query(OAuthAccount).filter(user_id == .., provider == ..).first()
query_oauth_account(user_id, provider) ==
    LET hits == {a \in DOMAIN oauth_accounts :
                    /\ oauth_accounts[a].user_id = user_id
                    /\ oauth_accounts[a].provider = provider}
    IN  IF hits = {} THEN None ELSE CHOOSE a \in hits : \A b \in hits : a <= b

\* db.add(OAuthAccount(...)); db.commit()
insert_oauth_account(user_id, provider, tok) ==
    [a \in DOMAIN oauth_accounts \cup {NewId(oauth_accounts)} |->
        IF a = NewId(oauth_accounts)
        THEN [user_id |-> user_id, provider |-> provider, access_token |-> tok[1],
              refresh_token |-> tok[2], provider_data |-> tok[3]]
        ELSE oauth_accounts[a]]

\* the else branch: update the existing OAuthAccount
update_oauth_account(a, tok) ==
    [oauth_accounts EXCEPT ![a].access_token = tok[1],
                           ![a].refresh_token = IF tok[2] # None THEN tok[2] ELSE @,
                           ![a].provider_data = IF tok[3] # None THEN tok[3] ELSE @]

\* the users table after the lookup-or-create step of reconcile
reconcile_users_demoting(email) ==
    IF get_by_email(email) = None THEN create_with_role(email, "user")
    ELSE [users EXCEPT ![get_by_email(email)].roles = {"user"}]

reconcile_users(email) ==
    IF get_by_email(email) = None THEN create_with_role(email, "user") ELSE users

OAuthResponse(status, detail, user, a, provider, email, tok) ==
    Response("create_or_get_user_from_oauth", status, detail, "", user, None, {},
             None, NoToken, None, a,
             [provider |-> provider, email |-> email, tok |-> tok])

\* AuthService.create_or_get_user_from_oauth, run without interference
create_or_get_user_from_oauth(provider, email, tok) ==
    LET found == get_by_email(email)
        user == IF found = None THEN NewId(users) ELSE found
        oauth_account == query_oauth_account(user, provider)
        a == IF oauth_account = None THEN NewId(oauth_accounts) ELSE oauth_account
    IN  /\ \A c \in DOMAIN calls : calls[c].pc = "idle"
        /\ users' = reconcile_users(email)
        /\ oauth_accounts' = IF oauth_account = None
                             THEN insert_oauth_account(user, provider, tok)
                             ELSE update_oauth_account(oauth_account, tok)
        /\ logins' = logins \cup {[email |-> email, provider |-> provider, user |-> user]}
        /\ resp' = OAuthResponse(HTTP_200_OK, "", user, a, provider, email, tok)
        /\ UNCHANGED <<rolePerms, keys, nextKeyId, tokens, now, createdBy, calls>>

\* ---- create_or_get_user_from_oauth step by step: every query and every
\* commit is a separate interaction with the database, and requests served by
\* different workers interleave between them.  calls[c] holds the arguments
\* and the local variables user and oauth_account of request c.

\* a callback enters create_or_get_user_from_oauth
oauth_begin(c, provider, email, tok) ==
    /\ calls[c].pc = "idle"
    /\ calls' = [calls EXCEPT ![c] = [pc |-> "get_by_email", provider |-> provider,
                                      email |-> email, tok |-> tok,
                                      user |-> None, oauth_account |-> None]]
    /\ UNCHANGED <<users, rolePerms, keys, nextKeyId, tokens, now, resp, createdBy,
                   oauth_accounts, logins>>

\* user = user_crud.get_by_email(db, email=email)
oauth_get_by_email(c) ==
    /\ calls[c].pc = "get_by_email"
    /\ LET user == get_by_email(calls[c].email)
       IN  calls' = [calls EXCEPT ![c].user = user,
                                  ![c].pc = IF user = None THEN "create_with_role"
                                            ELSE "query_oauth_account"]
    /\ UNCHANGED <<users, rolePerms, keys, nextKeyId, tokens, now, resp, createdBy,
                   oauth_accounts, logins>>

\* user = user_crud.create_with_role(...): the INSERT is refused by the
\* unique index on users.email when a row with this address exists by now;
\* the callback turns the IntegrityError into a 400 response
oauth_create_with_role(c) ==
    /\ calls[c].pc = "create_with_role"
    /\ IF get_by_email(calls[c].email) # None
       THEN /\ calls' = [calls EXCEPT ![c] = IdleCall]
            /\ resp' = OAuthResponse(HTTP_400_BAD_REQUEST, "OAuth authentication failed",
                                     None, None, calls[c].provider, calls[c].email,
                                     calls[c].tok)
            /\ users' = users
       ELSE /\ users' = create_with_role(calls[c].email, "user")
            /\ calls' = [calls EXCEPT ![c].user = NewId(users),
                                      ![c].pc = "query_oauth_account"]
            /\ resp' = resp
    /\ UNCHANGED <<rolePerms, keys, nextKeyId, tokens, now, createdBy,
                   oauth_accounts, logins>>

\* oauth_account = db.query(OAuthAccount).filter(...).first()
oauth_query_oauth_account(c) ==
    /\ calls[c].pc = "query_oauth_account"
    /\ LET oauth_account == query_oauth_account(calls[c].user, calls[c].provider)
       IN  calls' = [calls EXCEPT ![c].oauth_account = oauth_account,
                                  ![c].pc = IF oauth_account = None
                                            THEN "insert_oauth_account"
                                            ELSE "update_oauth_account"]
    /\ UNCHANGED <<users, rolePerms, keys, nextKeyId, tokens, now, resp, createdBy,
                   oauth_accounts, logins>>

\* if not oauth_account: db.add(OAuthAccount(...)); db.commit(); return user
oauth_insert_oauth_account(c) ==
    /\ calls[c].pc = "insert_oauth_account"
    /\ oauth_accounts' = insert_oauth_account(calls[c].user, calls[c].provider, calls[c].tok)
    /\ logins' = logins \cup {[email |-> calls[c].email, provider |-> calls[c].provider,
                                user |-> calls[c].user]}
    /\ resp' = OAuthResponse(HTTP_200_OK, "", calls[c].user, NewId(oauth_accounts),
                             calls[c].provider, calls[c].email, calls[c].tok)
    /\ calls' = [calls EXCEPT ![c] = IdleCall]
    /\ UNCHANGED <<users, rolePerms, keys, nextKeyId, tokens, now, createdBy>>

\* else: update the existing OAuthAccount; db.commit(); return user
oauth_update_oauth_account(c) ==
    /\ calls[c].pc = "update_oauth_account"
    /\ oauth_accounts' = update_oauth_account(calls[c].oauth_account, calls[c].tok)
    /\ logins' = logins \cup {[email |-> calls[c].email, provider |-> calls[c].provider,
                                user |-> calls[c].user]}
    /\ resp' = OAuthResponse(HTTP_200_OK, "", calls[c].user, calls[c].oauth_account,
                             calls[c].provider, calls[c].email, calls[c].tok)
    /\ calls' = [calls EXCEPT ![c] = IdleCall]
    /\ UNCHANGED <<users, rolePerms, keys, nextKeyId, tokens, now, createdBy>>

\* scripts/seed_db.py seed_database: roles and test users, each only if absent
seed_database ==
    LET roles1 == [r \in DOMAIN rolePerms \cup Roles |->
                      IF r \in DOMAIN rolePerms THEN rolePerms[r] ELSE SeededRoles[r]]
        with(us, rec) ==
            IF \E u \in DOMAIN us : us[u].email = rec.email THEN us
            ELSE [u \in DOMAIN us \cup {NewId(us)} |->
                     IF u = NewId(us) THEN rec ELSE us[u]]
    IN  /\ rolePerms' = roles1
        /\ users' = with(with(users, SeededUsers[1]), SeededUsers[2])
        /\ resp' = NoResponse
        /\ UNCHANGED <<keys, nextKeyId, tokens, now, createdBy, oauth_vars>>

\* ------------------------------------------------------------ initial state
\* The seeded store (scripts/seed_db.py): the admin role holds every
\* permission, the user role none of the modelled ones; user 1 is
\* admin@example.com with role admin, user 2 is user@example.com with role user.
InitStore ==
    /\ users = SeededUsers
    /\ rolePerms = SeededRoles
    /\ keys = <<>>
    /\ nextKeyId = 1
    /\ tokens = {}
    /\ resp = NoResponse
    /\ createdBy = <<>>
    /\ oauth_accounts = <<>>
    /\ calls = [c \in 1 .. MaxCalls |-> IdleCall]
    /\ logins = {}

Init == InitStore /\ now = 1

\* ------------------------------------------- key lifecycle specification
\* Ownership and lifecycle of keys: both the layered service and the ad hoc
\* router handlers, called by either user on any id.
NextKeys ==
    \/ \E u \in UserIds, rs \in {{}, {"admin"}} : create_api_key(u, None, rs, {})
    \/ \E u \in UserIds : get_user_api_keys(u)
    \/ \E u \in UserIds : list_api_keys(u)
    \/ \E i \in 1 .. MaxKeys, u \in UserIds : get_api_key(i, u)
    \/ \E i \in 1 .. MaxKeys, u \in UserIds : delete_api_key(i, u)
    \/ \E i \in 1 .. MaxKeys, u \in UserIds, b \in BOOLEAN : toggle_api_key(i, u, b)
    \/ \E i \in 1 .. MaxKeys, u \in UserIds : router_get_api_key(i, u)
    \/ \E i \in 1 .. MaxKeys, u \in UserIds : router_delete_api_key(i, u)
    \/ \E i \in 1 .. MaxKeys, u \in UserIds : router_deactivate_api_key(i, u)
    \/ \E i \in 1 .. MaxKeys, u \in UserIds : router_activate_api_key(i, u)

SpecKeys == Init /\ [][NextKeys]_vars

\* --------------------------------------------- key validity specification
\* Validation of keys over time: keys with and without expiry are created,
\* toggled and deleted by their owner while the clock advances.
NextValidity ==
    \/ Tick
    \/ \E e \in ExpiryInputs : create_api_key(1, e, {}, {})
    \/ \E i \in 1 .. MaxKeys, b \in BOOLEAN : toggle_api_key(i, 1, b)
    \/ \E i \in 1 .. MaxKeys : delete_api_key(i, 1)
    \/ \E i \in 1 .. MaxKeys : get_api_key(i, 1)
    \/ get_user_api_keys(1)
    \/ \E k \in KeyInputs : call_validate_api_key(k)

SpecValidity == Init /\ [][NextValidity]_vars

\* ---------------------------------------------- key expiry specification
\* Keys that carry the admin role, with and without expiry, are toggled by
\* their owner and presented to validation, to the key path and to the
\* checkers while the clock advances.
NextExpiry ==
    \/ Tick
    \/ \E e \in ExpiryInputs :
          nextKeyId <= AuthMaxKeys /\ create_api_key(1, e, {"admin"}, {})
    \/ \E i \in 1 .. AuthMaxKeys, b \in BOOLEAN : toggle_api_key(i, 1, b)
    \/ \E k \in AuthKeyInputs : call_validate_api_key(k)
    \/ \E k \in AuthKeyInputs : call_get_current_user_from_apikey(k)
    \/ \E k \in AuthKeyInputs : call_permission_checker({"users:write"}, NoToken, k)
    \/ \E k \in AuthKeyInputs : call_role_checker({"admin"}, NoToken, k)

SpecExpiry == Init /\ [][NextExpiry]_vars

\* ------------------------------------------ credential resolution specification
\* Principals log in, are deactivated and reactivated, own keys with and
\* without expiry, and present any combination of key and bearer token.
AuthTokenInputs ==
    {NoToken, GarbageToken} \cup tokens \cup SignedTokens(UserIds, {{}}, {{}}, {1, MaxTime})

NextAuth ==
    \/ Tick
    \/ \E b \in BOOLEAN : set_user_active(1, b)
    \/ issue_token(1)
    \/ \E u \in UserIds, e \in ExpiryInputs :
          nextKeyId <= AuthMaxKeys /\ create_api_key(u, e, {}, {})
    \/ \E t \in AuthTokenInputs \ {NoToken} : call_decode_access_token(t)
    \/ \E t \in AuthTokenInputs : call_get_current_user_from_jwt(t)
    \/ \E k \in AuthKeyInputs : call_get_current_user_from_apikey(k)
    \/ \E t \in AuthTokenInputs : call_get_current_user_jwt_required(t)
    \/ \E k \in AuthKeyInputs : call_get_current_user_apikey_required(k)
    \/ \E t \in AuthTokenInputs, k \in AuthKeyInputs : call_get_current_user_either(t, k)

SpecAuth == Init /\ [][NextAuth]_vars

\* ---------------------------------------------- access control specification
\* Grants change while keys and tokens that carry them are presented to the
\* permission and role checkers.
AccessTokenInputs ==
    {NoToken, GarbageToken} \cup tokens
        \cup SignedTokens({2}, {{"user"}}, {{"users:delete"}}, {1, MaxTime})

\* the service may be started at any instant of the clock
InitAccess == InitStore /\ now \in {1, MaxTime}

\* role_ids and permission_ids a client sends when creating a key
AccessKeyGrants == {<<{}, {}>>, <<{"admin"}, {}>>, <<{}, {"users:write"}>>}

NextAccess ==
    \/ assign_role_to_user(1, "admin")
    \/ remove_role_from_user(1, "admin")
    \/ add_permission("admin", "users:delete")
    \/ remove_permission("admin", "users:delete")
    \/ issue_token(1)
    \/ \E g \in AccessKeyGrants :
          nextKeyId <= AuthMaxKeys /\ create_api_key(1, None, g[1], g[2])
    \/ \E R \in SUBSET Perms, t \in AccessTokenInputs, k \in {None, KeyString(1)} :
          call_permission_checker(R, t, k)
    \/ \E R \in SUBSET Roles, t \in AccessTokenInputs, k \in {None, KeyString(1)} :
          call_role_checker(R, t, k)

SpecAccess == InitAccess /\ [][NextAccess]_vars

\* ------------------------------------------- external identity specification
\* The service starts on the tables created by Base.metadata.create_all, with
\* no rows; the seed script and OAuth logins then fill the store while grants,
\* active flags and keys of existing principals change.
InitOAuth ==
    /\ users = <<>>
    /\ rolePerms = <<>>
    /\ keys = <<>>
    /\ nextKeyId = 1
    /\ tokens = {}
    /\ resp = NoResponse
    /\ createdBy = <<>>
    /\ oauth_accounts = <<>>
    /\ calls = [c \in 1 .. MaxCalls |-> IdleCall]
    /\ logins = {}
    /\ now = 1

NextOAuth ==
    \/ seed_database
    \/ \E l \in OAuthLogins, tok \in OAuthTokens :
          create_or_get_user_from_oauth(l[1], l[2], tok)
    \/ 1 \in DOMAIN users /\ set_user_active(1, FALSE)
    \/ 1 \in DOMAIN users /\ nextKeyId <= AuthMaxKeys /\ create_api_key(1, None, {}, {})

SpecOAuth == InitOAuth /\ [][NextOAuth]_vars

\* -------------------------------- concurrent external identity specification
\* Callbacks served at the same time on the seeded store: each request runs
\* the steps of create_or_get_user_from_oauth in order, interleaved with the
\* steps of the others.
ConcurrentLogins == {<<"google", "admin@example.com">>, <<"google", "new@example.com">>,
                     <<"github", "new@example.com">>}

NextOAuthConcurrent ==
    \/ \E c \in 1 .. MaxCalls, l \in ConcurrentLogins :
          oauth_begin(c, l[1], l[2], <<1, 11, 21>>)
    \/ \E c \in 1 .. MaxCalls : oauth_get_by_email(c)
    \/ \E c \in 1 .. MaxCalls : oauth_create_with_role(c)
    \/ \E c \in 1 .. MaxCalls : oauth_query_oauth_account(c)
    \/ \E c \in 1 .. MaxCalls : oauth_insert_oauth_account(c)
    \/ \E c \in 1 .. MaxCalls : oauth_update_oauth_account(c)

SpecOAuthConcurrent == Init /\ [][NextOAuthConcurrent]_vars

\* ------------------------------------- permission aggregation specification
\* The two aggregations of a principal's permissions, applied to every role
\* list up to MaxRoleList entries on every assignment of permissions to roles.
InitAggregate ==
    /\ users = SeededUsers
    /\ rolePerms \in [Roles -> SUBSET Perms]
    /\ keys = <<>>
    /\ nextKeyId = 1
    /\ tokens = {}
    /\ resp = NoResponse
    /\ createdBy = <<>>
    /\ oauth_accounts = <<>>
    /\ calls = [c \in 1 .. MaxCalls |-> IdleCall]
    /\ logins = {}
    /\ now = 1

NextAggregate ==
    \/ \E roles \in RoleLists, rp \in RolePermissionLists :
          \E out \in token_permissions(roles, rp) : call_token_permissions(roles, rp, out)
    \/ \E roles \in RoleLists, rp \in RolePermissionLists :
          \E out \in User_permissions(roles, rp) : call_User_permissions(roles, rp, out)

SpecAggregate == InitAggregate /\ [][NextAggregate]_vars

\* ------------------------------------------- guarded endpoint specification
\* Requests to the demo endpoints and to the resolvers and checkers they are
\* built from, with any combination of key and bearer token, while principals
\* create keys with chosen grants and principal 1 is deactivated and
\* reactivated.
EndpointTokenInputs ==
    {NoToken, GarbageToken}
        \cup SignedTokens({1}, {{"user"}}, {{}}, {MaxTime})
        \cup SignedTokens({2}, {{"admin"}}, {{"users:read", "users:write"}}, {MaxTime})

EndpointKeyGrants == {<<{}, {}>>, <<{"admin"}, {}>>}

NextEndpoints ==
    \/ \E b \in BOOLEAN : set_user_active(1, b)
    \/ \E u \in UserIds, g \in EndpointKeyGrants :
          nextKeyId <= AuthMaxKeys /\ create_api_key(u, None, g[1], g[2])
    \/ \E t \in EndpointTokenInputs, k \in AuthKeyInputs : admin_only_endpoint(t, k)
    \/ \E t \in EndpointTokenInputs, k \in AuthKeyInputs :
          read_users_permission_endpoint(t, k)
    \/ \E t \in EndpointTokenInputs, k \in AuthKeyInputs :
          write_users_permission_endpoint(t, k)
    \/ \E t \in EndpointTokenInputs : call_get_current_user_from_jwt(t)
    \/ \E k \in AuthKeyInputs : call_get_current_user_from_apikey(k)
    \/ \E t \in EndpointTokenInputs : call_get_current_user_jwt_required(t)
    \/ \E k \in AuthKeyInputs : call_get_current_user_apikey_required(k)
    \/ \E t \in EndpointTokenInputs, k \in AuthKeyInputs : call_get_current_user_either(t, k)
    \/ \E t \in EndpointTokenInputs, k \in AuthKeyInputs :
          call_permission_checker({"users:write"}, t, k)
    \/ \E t \in EndpointTokenInputs, k \in AuthKeyInputs :
          call_role_checker({"admin"}, t, k)

SpecEndpoints == Init /\ [][NextEndpoints]_vars

\* ================================================================ claims

\* C1: for every stored key K, validate_api_key(K.key) returns K if and only
\* if K.is_active and (K.expires_at is null or K.expires_at > now); a key
\* whose expires_at equals now is rejected; evaluated on the stored record at
\* every call.
C1_ValidIffActiveAndStrictlyUnexpired ==
    resp.op = "validate_api_key" =>
        \A i \in DOMAIN keys :
            keys[i].key = resp.in_key =>
                ((resp.keyid = i) <=>
                    (keys[i].is_active /\
                        (keys[i].expires_at = None \/ keys[i].expires_at > now)))

\* the principal a credential stands for when it is presented now, or None
ValidKeyIds(api_key) ==
    {i \in DOMAIN keys : keys[i].key = api_key /\ is_valid(keys[i], now)}

KeyPathPrincipal(api_key) ==
    IF \E i \in ValidKeyIds(api_key) :
          keys[i].user_id \in DOMAIN users /\ users[keys[i].user_id].is_active
    THEN keys[CHOOSE i \in ValidKeyIds(api_key) : TRUE].user_id
    ELSE None

TokenPathPrincipal(credentials) ==
    IF /\ credentials.present
       /\ decode_ok(credentials)
       /\ credentials.sub \in DOMAIN users
       /\ users[credentials.sub].is_active
    THEN credentials.sub
    ELSE None

\* C2: once principal P is inactive, get_current_user_jwt_required with a
\* valid unexpired token whose subject is P, and
\* get_current_user_apikey_required with a valid key owned by P, both fail
\* with 403 "Inactive user" - not with 401 and not with success.
C2_InactivePrincipalGets403 ==
    /\ (/\ resp.op = "get_current_user_jwt_required"
        /\ resp.in_tok.present
        /\ decode_ok(resp.in_tok)
        /\ resp.in_tok.sub \in DOMAIN users
        /\ ~users[resp.in_tok.sub].is_active)
       => (resp.status = HTTP_403_FORBIDDEN /\ resp.detail = "Inactive user")
    /\ (/\ resp.op = "get_current_user_apikey_required"
        /\ \E i \in ValidKeyIds(resp.in_key) :
              keys[i].user_id \in DOMAIN users /\ ~users[keys[i].user_id].is_active)
       => (resp.status = HTTP_403_FORBIDDEN /\ resp.detail = "Inactive user")

\* C3: get_current_user_either returns the key's owner whenever the key path
\* yields a principal; whenever the key path yields none, for any reason
\* including an inactive owner, it returns the token path's principal if there
\* is one; only when both yield nothing it fails, with 401.
C3_EitherKeyFirstThenToken ==
    resp.op = "get_current_user_either" =>
        LET kp == KeyPathPrincipal(resp.in_key)
            tp == TokenPathPrincipal(resp.in_tok)
        IN  IF kp # None THEN resp.status = HTTP_200_OK /\ resp.user = kp
            ELSE IF tp # None THEN resp.status = HTTP_200_OK /\ resp.user = tp
            ELSE resp.status = HTTP_401_UNAUTHORIZED

\* C4: the optional resolvers get_current_user_from_jwt and
\* get_current_user_from_apikey never raise: for every credential and store
\* state they return a principal or None.
C4_OptionalResolversNeverRaise ==
    resp.op \in {"get_current_user_from_jwt", "get_current_user_from_apikey"} =>
        resp.status = HTTP_200_OK

\* C5: the permission checker passes if and only if every required
\* permission is in the caller's effective permission set, and otherwise
\* fails with 403.
C5_PermissionCheckIsAllOf ==
    resp.op = "permission_checker" =>
        /\ (resp.status = HTTP_200_OK) <=>
              (resp.in_req \subseteq effective_permissions(resp.in_tok, resp.in_key))
        /\ resp.status \in {HTTP_200_OK, HTTP_403_FORBIDDEN}

\* a key with no direct grants and one role holding only users:write is
\* refused when users:delete is required as well
C5_Witness ==
    /\ resp.op = "permission_checker"
    /\ resp.in_key = KeyString(1)
    /\ ~resp.in_tok.present
    /\ ValidKeyIds(resp.in_key) = {1}
    /\ keys[1].permissions = {}
    /\ keys[1].roles = {"admin"}
    /\ rolePerms["admin"] = {"users:write"}
    /\ resp.in_req = {"users:write", "users:delete"}
    /\ resp.status = HTTP_403_FORBIDDEN

\* C6: the role checker passes if and only if at least one required role is
\* in the caller's effective role set, and otherwise fails with 403.
C6_RoleCheckIsAnyOf ==
    resp.op = "role_checker" =>
        /\ (resp.status = HTTP_200_OK) <=>
              (resp.in_req \cap effective_roles(resp.in_tok, resp.in_key) # {})
        /\ resp.status \in {HTTP_200_OK, HTTP_403_FORBIDDEN}

\* holding one of two listed roles is enough
C6_Witness ==
    /\ resp.op = "role_checker"
    /\ resp.in_req = {"admin", "user"}
    /\ effective_roles(resp.in_tok, resp.in_key) = {"admin"}
    /\ resp.status = HTTP_200_OK

KeyDerivedPermissions(api_key) ==
    UNION {keys[i].permissions \cup UNION {rolePerms[r] : r \in keys[i].roles} :
              i \in ValidKeyIds(api_key)}

KeyDerivedRoles(api_key) == UNION {keys[i].roles : i \in ValidKeyIds(api_key)}

TokenClaims(credentials, field) ==
    IF credentials.present /\ decode_ok(credentials) THEN credentials[field] ELSE {}

\* C7: in both checks the decision is taken on the key-derived set alone
\* whenever a key was presented and yielded a non-empty set, and on the
\* token's claims alone otherwise; the two sets are never unioned.
C7_KeySetOrTokenSetNeverBoth ==
    /\ resp.op = "permission_checker" =>
          LET ks == KeyDerivedPermissions(resp.in_key)
              ts == TokenClaims(resp.in_tok, "permissions")
          IN  (resp.status = HTTP_200_OK) <=>
                 (resp.in_req \subseteq (IF ks # {} THEN ks ELSE ts))
    /\ resp.op = "role_checker" =>
          LET ks == KeyDerivedRoles(resp.in_key)
              ts == TokenClaims(resp.in_tok, "roles")
          IN  (resp.status = HTTP_200_OK) <=>
                 (resp.in_req \cap (IF ks # {} THEN ks ELSE ts) # {})

\* a key yielding {users:write} and a decodable token carrying users:delete:
\* a requirement of users:delete is refused
C7_Witness ==
    /\ resp.op = "permission_checker"
    /\ KeyDerivedPermissions(resp.in_key) = {"users:write"}
    /\ TokenClaims(resp.in_tok, "permissions") = {"users:delete"}
    /\ resp.in_req = {"users:delete"}
    /\ resp.status = HTTP_403_FORBIDDEN

\* C8: a check made with a token issued by create_user_token and no key uses
\* exactly the roles and permissions the principal held at issuance, whatever
\* role or permission changes happened since, until the token expires; after
\* expiry the token contributes nothing.
C8_TokenCheckUsesIssuanceSnapshot ==
    (resp.in_key = None /\ resp.in_tok \in tokens) =>
        LET live == ~(resp.in_tok.exp < now)
            perms == IF live THEN resp.in_tok.permissions ELSE {}
            roles == IF live THEN resp.in_tok.roles ELSE {}
        IN  /\ resp.op = "permission_checker" =>
                  ((resp.status = HTTP_200_OK) <=> (resp.in_req \subseteq perms))
            /\ resp.op = "role_checker" =>
                  ((resp.status = HTTP_200_OK) <=> (resp.in_req \cap roles # {}))

OwnerCheckedOps ==
    {"get_api_key", "delete_api_key", "toggle_api_key",
     "router_get_api_key", "router_delete_api_key",
     "router_deactivate_api_key", "router_activate_api_key"}

\* C9: get, delete and toggle of a key by a caller that did not create it end
\* in 404 "API key not found", the outcome for an id that does not exist, and
\* leave the key records unchanged; in the service and in the router alike.
C9_NonOwnerGetsNotFound ==
    [][(/\ resp'.op \in OwnerCheckedOps
        /\ resp'.in_id \in DOMAIN keys
        /\ createdBy[resp'.in_id] # resp'.in_caller)
       => (/\ resp' = NotFound(resp'.op, resp'.in_caller, resp'.in_id)
           /\ resp'.status = HTTP_404_NOT_FOUND
           /\ keys' = keys)]_vars

C9_Witness ==
    /\ resp.op \in {"toggle_api_key", "router_delete_api_key"}
    /\ resp.status = HTTP_404_NOT_FOUND
    /\ resp.in_id \in DOMAIN keys
    /\ keys[resp.in_id].user_id # resp.in_caller

\* C10: after any sequence of create, toggle and delete by any owners,
\* get_user_api_keys(B) returns exactly the existing keys that B created.
C10_ListIsOwnKeys ==
    resp.op = "get_user_api_keys" =>
        resp.ids = {i \in DOMAIN keys : createdBy[i] = resp.in_caller}

C10_Witness ==
    /\ resp.op = "get_user_api_keys"
    /\ resp.ids # {}
    /\ \E i \in DOMAIN keys : createdBy[i] # resp.in_caller

\* C11: the entries returned by the list view (list_api_keys, shaped by
\* APIKeyListResponse) do not contain the raw secret string of a key.
C11_ListViewHidesSecret ==
    resp.op = "list_api_keys" =>
        \A e \in resp.body : "key" \notin DOMAIN e

KeyPathOps == {"get_current_user_from_apikey", "get_current_user_apikey_required"}

\* C12: key-path resolution sets last_used_at to the current time exactly
\* when it returns a principal; a resolution that fails at any step (unknown
\* key, inactive or expired key, inactive owner) leaves last_used_at and the
\* rest of the store unchanged.
C12_LastUsedOnlyOnSuccessfulResolution ==
    [][resp'.op \in KeyPathOps =>
          IF resp'.status = HTTP_200_OK /\ resp'.user # None
          THEN \E i \in DOMAIN keys :
                  /\ keys[i].key = resp'.in_key
                  /\ keys' = [keys EXCEPT ![i].last_used_at = now]
                  /\ UNCHANGED <<users, rolePerms, tokens>>
          ELSE UNCHANGED <<users, rolePerms, keys, tokens>>]_vars

\* the store after toggle_api_key(i, owner, activate=b) by the owner
Toggled(ks, i, b) ==
    IF b THEN api_key_crud_activate(ks, i) ELSE api_key_crud_deactivate(ks, i)

\* every field of a key record except is_active
OtherFields(k) == [f \in DOMAIN k \ {"is_active"} |-> k[f]]

\* C13: toggle_api_key(id, owner, activate=b) by the owner sets is_active to
\* b whatever its previous value, so repeating it changes nothing; toggling a
\* key away from its state and back (deactivate then activate for an active
\* key, activate then deactivate for an inactive one) restores the record, so
\* validate_api_key answers as before the two toggles; no other field of the
\* key and no other key changes.
C13_ToggleSetsFlagIdempotentReversible ==
    [][(resp'.op = "toggle_api_key" /\ resp'.status = HTTP_200_OK) =>
          LET i == resp'.in_id
              b == CHOOSE x \in resp'.in_req : TRUE
              was == keys[i].is_active
              back == Toggled(Toggled(keys, i, ~was), i, was)
          IN  /\ keys' = Toggled(keys, i, b)
              /\ keys'[i].is_active = b
              /\ OtherFields(keys'[i]) = OtherFields(keys[i])
              /\ \A j \in DOMAIN keys \ {i} : keys'[j] = keys[j]
              /\ DOMAIN keys' = DOMAIN keys
              /\ Toggled(keys', i, b) = keys'
              /\ back = keys
              /\ is_valid(back[i], now) = is_valid(keys[i], now)]_vars

\* the owner has just re-activated a key that was used at an earlier instant
C13_Witness ==
    /\ resp.op = "toggle_api_key"
    /\ resp.status = HTTP_200_OK
    /\ resp.in_req = {TRUE}
    /\ keys[resp.in_id].is_active
    /\ keys[resp.in_id].last_used_at # None
    /\ keys[resp.in_id].last_used_at < now

\* ids that were created and whose record no longer exists
Deleted == DOMAIN createdBy \ DOMAIN keys

\* C14: Deleted is terminal: once the owner's delete_api_key(id) has
\* succeeded the record is gone for good; every later validate_api_key with
\* its key string returns None, every later get, toggle or delete of the id
\* answers 404, the owner's list does not contain it, and no later operation
\* makes the key validate again.
C14_DeletedIsTerminal ==
    [][/\ (resp'.op = "delete_api_key" /\ resp'.status = HTTP_200_OK)
             => resp'.in_id \in Deleted'
       /\ Deleted \subseteq Deleted'
       /\ \A i \in Deleted :
             /\ (resp'.op = "validate_api_key" /\ resp'.in_key = KeyString(i))
                   => resp'.keyid = None
             /\ (resp'.op \in {"get_api_key", "toggle_api_key", "delete_api_key"}
                   /\ resp'.in_id = i)
                   => (resp'.status = HTTP_404_NOT_FOUND
                       /\ resp'.detail = "API key not found")
             /\ resp'.op = "get_user_api_keys" => i \notin resp'.ids
             /\ validate_api_key(KeyString(i))' = None]_vars

\* a deleted key is presented again after a new key was created and time passed
C14_Witness ==
    /\ resp.op = "validate_api_key"
    /\ resp.keyid = None
    /\ \E i \in Deleted : resp.in_key = KeyString(i)
    /\ DOMAIN keys # {}
    /\ now > 1

\* the key record i has an expires_at that lies in the past
Expired(i) == keys[i].expires_at # None /\ keys[i].expires_at < now

\* C15: a key whose expires_at lies in the past fails validation whatever
\* its is_active flag; no lifecycle operation changes expires_at, so no
\* sequence of toggles makes it validate again; it yields no principal on the
\* key path and contributes no roles or permissions to a check.
C15_ExpiredKeyNeverValidates ==
    /\ [](\A i \in DOMAIN keys :
             Expired(i) =>
                /\ validate_api_key(keys[i].key) = None
                /\ get_current_user_from_apikey(keys[i].key) = Return(None)
                /\ effective_permissions(NoToken, keys[i].key) = {}
                /\ effective_roles(NoToken, keys[i].key) = {}
                /\ resp.in_key = keys[i].key =>
                      /\ resp.op = "validate_api_key" => resp.keyid = None
                      /\ resp.op = "get_current_user_from_apikey" => resp.user = None
                      /\ resp.op \in {"permission_checker", "role_checker"}
                            => resp.status = HTTP_403_FORBIDDEN)
    /\ [][\A i \in DOMAIN keys \cap DOMAIN keys' :
             keys'[i].expires_at = keys[i].expires_at]_vars

\* an expired key carrying the admin role was re-activated by its owner and
\* is refused by the permission check
C15_Witness ==
    /\ resp.op = "permission_checker"
    /\ resp.status = HTTP_403_FORBIDDEN
    /\ \E i \in DOMAIN keys :
          /\ resp.in_key = keys[i].key
          /\ Expired(i)
          /\ keys[i].is_active
          /\ keys[i].roles = {"admin"}
          /\ keys[i].last_used_at # None
    /\ rolePerms["admin"] = Perms

\* the principals with this e-mail address, and the links of a principal
PrincipalsWithEmail(email) == {u \in DOMAIN users : users[u].email = email}

LinksOf(user_id, provider) ==
    {a \in DOMAIN oauth_accounts :
        oauth_accounts[a].user_id = user_id /\ oauth_accounts[a].provider = provider}

\* C16: two reconcile calls with the same e-mail from google and from github
\* return the same principal id, leave exactly one principal with that
\* e-mail, and leave two distinct links, one per provider, both owned by
\* that principal.
C16_SameEmailSamePrincipalTwoLinks ==
    \A l1 \in logins, l2 \in logins :
        (l1.email = l2.email /\ l1.provider = "google" /\ l2.provider = "github") =>
            /\ l1.user = l2.user
            /\ PrincipalsWithEmail(l1.email) = {l1.user}
            /\ Cardinality(LinksOf(l1.user, "google")) = 1
            /\ Cardinality(LinksOf(l1.user, "github")) = 1
            /\ LinksOf(l1.user, "google") # LinksOf(l1.user, "github")
            /\ \A a \in DOMAIN oauth_accounts :
                  users[oauth_accounts[a].user_id].email = l1.email
                     => oauth_accounts[a].user_id = l1.user

\* the second login, from github, of an address that first logged in from
\* google and thereby created its principal
C16_Witness ==
    /\ resp.op = "create_or_get_user_from_oauth"
    /\ resp.in_req.provider = "github"
    /\ [email |-> resp.in_req.email, provider |-> "google", user |-> resp.user] \in logins
    /\ [email |-> resp.in_req.email, provider |-> "github", user |-> resp.user] \in logins
    /\ LinksOf(resp.user, "google") = {1}
    /\ LinksOf(resp.user, "github") # {}
    /\ ~users[resp.user].is_superuser

\* C17: in every reachable state, also when reconcile calls for the same
\* e-mail and provider interleave their lookup and insert steps, there is at
\* most one principal per e-mail and at most one link per (principal,
\* provider) pair, and no call ends in a uniqueness-violation failure.
C17_UniqueUnderInterleaving ==
    /\ \A u \in DOMAIN users : PrincipalsWithEmail(users[u].email) = {u}
    /\ \A a \in DOMAIN oauth_accounts :
          LinksOf(oauth_accounts[a].user_id, oauth_accounts[a].provider) = {a}
    /\ resp.op = "create_or_get_user_from_oauth" => resp.status = HTTP_200_OK

\* C18: whenever reconcile finds no principal for the supplied e-mail, the
\* principal it creates is active, is not superuser and has the role set
\* exactly {user}, in every store state in which reconcile can be called.
C18_CreatedPrincipalHasDefaultRole ==
    [][(/\ resp'.op = "create_or_get_user_from_oauth"
        /\ resp'.status = HTTP_200_OK
        /\ get_by_email(resp'.in_req.email) = None)
       => (/\ resp'.user \in DOMAIN users' \ DOMAIN users
           /\ users'[resp'.user].email = resp'.in_req.email
           /\ users'[resp'.user].is_active
           /\ ~users'[resp'.user].is_superuser
           /\ users'[resp'.user].roles = {"user"})]_vars

\* C19: reconcile never deletes and never demotes: every existing principal
\* keeps its role set, active flag and superuser flag, the API keys and the
\* links to other providers are unchanged, and the sets of principals and of
\* links only grow.
C19_ReconcileNeverDeletesNorDemotes ==
    [][resp'.op = "create_or_get_user_from_oauth" =>
          /\ \A u \in DOMAIN users : u \in DOMAIN users' /\ users'[u] = users[u]
          /\ keys' = keys
          /\ rolePerms' = rolePerms
          /\ \A a \in DOMAIN oauth_accounts :
                /\ a \in DOMAIN oauth_accounts'
                /\ oauth_accounts'[a].user_id = oauth_accounts[a].user_id
                /\ oauth_accounts'[a].provider = oauth_accounts[a].provider
                /\ (\/ oauth_accounts[a].provider # resp'.in_req.provider
                    \/ oauth_accounts[a].user_id # resp'.user)
                      => oauth_accounts'[a] = oauth_accounts[a]]_vars

\* a login of the seeded administrator, deactivated and owning a key, who is
\* already linked to the other provider
C19_Witness ==
    /\ resp.op = "create_or_get_user_from_oauth"
    /\ users[resp.user].is_superuser
    /\ users[resp.user].roles = {"admin"}
    /\ ~users[resp.user].is_active
    /\ \E i \in DOMAIN keys : keys[i].user_id = resp.user
    /\ LinksOf(resp.user, "google") # {}
    /\ LinksOf(resp.user, "github") # {}

\* C20: when reconcile finds an existing link for (principal, provider), the
\* link's stored access token, refresh token and provider profile afterwards
\* equal the values supplied in this call, also when the optional refresh
\* token is absent, and no second link is created.
C20_ExistingLinkTakesSuppliedValues ==
    [][(/\ resp'.op = "create_or_get_user_from_oauth"
        /\ resp'.status = HTTP_200_OK
        /\ query_oauth_account(get_by_email(resp'.in_req.email), resp'.in_req.provider) # None)
       => LET a == query_oauth_account(get_by_email(resp'.in_req.email),
                                       resp'.in_req.provider)
          IN  /\ oauth_accounts'[a].access_token = resp'.in_req.tok[1]
              /\ oauth_accounts'[a].refresh_token = resp'.in_req.tok[2]
              /\ oauth_accounts'[a].provider_data = resp'.in_req.tok[3]
              /\ DOMAIN oauth_accounts' = DOMAIN oauth_accounts]_vars

\* C21: for a token issued by create_user_token, decode_access_token returns
\* a payload with the same subject, email, roles and permissions while the
\* lifetime has not elapsed (now <= exp), and fails with
\* ExpiredSignatureError strictly after that instant.
C21_TokenRoundTrip ==
    (resp.op = "decode_access_token" /\ resp.in_tok \in tokens) =>
        IF now <= resp.in_tok.exp
        THEN /\ resp.status = HTTP_200_OK
             /\ resp.body = {Payload(resp.in_tok)}
        ELSE resp.detail = "ExpiredSignatureError"

\* C22: the permission list embedded by create_user_token, and the one
\* returned by User.permissions, holds exactly the union of the permissions
\* of the principal's roles, each permission once, and the same permissions
\* for every ordering of the role list and for repeated roles.
C22_AggregationIsUnionWithoutDuplicates ==
    resp.op \in {"create_user_token.permissions", "User.permissions"} =>
        \A roles \in resp.in_req, out \in resp.body :
            /\ Range(out) = UNION {rolePerms[r] : r \in Range(roles)}
            /\ \A i, j \in DOMAIN out : i # j => out[i] # out[j]
            /\ \A other \in RoleLists, rp \in RolePermissionLists :
                  Range(other) = Range(roles) =>
                      /\ collect_permissions({}, other, rp) = Range(out)
                      /\ Range(extend_permissions(<<>>, other, rp)) = Range(out)

\* a role listed twice, and two roles that share a permission
C22_Witness ==
    /\ resp.op = "User.permissions"
    /\ resp.in_req = {<<"admin", "user", "admin">>}
    /\ rolePerms["admin"] = Perms
    /\ rolePerms["user"] = {"users:write"}
    /\ \E out \in resp.body : Len(out) = 2

C24_ChallengeHeaderOnEvery401 ==
    resp.status = HTTP_401_UNAUTHORIZED =>
        /\ resp.op = "get_current_user_jwt_required" => resp.hdr = "Bearer"
        /\ resp.op = "get_current_user_apikey_required" => resp.hdr = "ApiKey"
        /\ resp.op = "get_current_user_either" =>
              (resp.hdr = "" /\ resp.detail = "Valid JWT token or API key required")

\* C25: on a token-required endpoint a request without a bearer token and a
\* request with a malformed, unsigned, expired or wrongly signed token get
\* the same failure: status 401, the same detail and the same headers.
C25_AbsentAndGarbageTokenIndistinguishable ==
    (/\ resp.op = "get_current_user_jwt_required"
     /\ (~resp.in_tok.present \/ ~resp.in_tok.sig \/ resp.in_tok.exp < now))
    => LET absent == get_current_user_jwt_required(NoToken)
       IN  /\ resp.status = HTTP_401_UNAUTHORIZED
           /\ resp.status = absent.status
           /\ resp.detail = absent.detail
           /\ resp.hdr = absent.hdr

AuthRequiredOps ==
    {"get_current_user_jwt_required", "get_current_user_apikey_required",
     "get_current_user_either", "admin_only_endpoint",
     "read_users_permission_endpoint", "write_users_permission_endpoint"}

\* C26: a request with neither a bearer token nor an API key is answered 401
\* by every endpoint that requires authentication, the endpoints guarded by
\* a role or permission check (/admin-only, /read-users-permission,
\* /write-users-permission) included; an optional resolver yields an absent
\* principal for such a request.
C26_NoCredentialGets401 ==
    (resp.in_key = None /\ ~resp.in_tok.present) =>
        /\ resp.op \in AuthRequiredOps => resp.status = HTTP_401_UNAUTHORIZED
        /\ resp.op \in {"get_current_user_from_jwt", "get_current_user_from_apikey"} =>
              (resp.status = HTTP_200_OK /\ resp.user = None)

\* the calls that attach a relation already attached or detach one not attached
RepeatedAttach ==
    \/ resp'.op \in {"assign_role_to_user", "add_permission"} /\ resp'.ids # {}
    \/ resp'.op \in {"remove_role_from_user", "remove_permission"} /\ resp'.ids = {}

\* C27: attaching a relation that is already attached is a no-op, not an
\* error: assign_role_to_user for a role the user holds, add_permission for a
\* permission the role has, and remove_role_from_user for a role the user
\* does not hold succeed and leave users, roles and keys unchanged.
C27_RepeatedAttachIsNoOp ==
    [][(resp'.op \in {"assign_role_to_user", "add_permission",
                      "remove_role_from_user", "remove_permission"}
        /\ RepeatedAttach)
       => /\ resp'.status = HTTP_200_OK
          /\ users' = users
          /\ rolePerms' = rolePerms
          /\ keys' = keys]_vars

\* the admin role is assigned to principal 1, who already holds it
C27_Witness ==
    /\ resp.op = "assign_role_to_user"
    /\ resp.user = 1
    /\ resp.ids = {"admin"}
    /\ resp.status = HTTP_200_OK
    /\ users[1].roles = {"admin"}

\* C28: create_api_key attaches only roles and permissions the creating
\* principal itself holds: the effective permission set of the new key is a
\* subset of the effective permission set of its owner at creation time.
C28_KeyGrantsWithinOwnerGrants ==
    [][resp'.op = "create_api_key" =>
          \A i \in DOMAIN keys' \ DOMAIN keys :
              (keys'[i].permissions \cup UNION {rolePerms[r] : r \in keys'[i].roles})
                  \subseteq user_permissions_of(keys'[i].user_id)]_vars

GuardedEndpoints ==
    {"admin_only_endpoint", "read_users_permission_endpoint",
     "write_users_permission_endpoint"}

\* the requirement of a guarded endpoint is met by this set of grants
Satisfies(op, required, grants) ==
    IF op = "admin_only_endpoint" THEN required \cap grants # {}
    ELSE required \subseteq grants

\* C29: whenever a guarded endpoint admits a request, the grants that
\* satisfied its check come from the credential that yielded the returned
\* principal: from the key when the key path yielded the principal, from the
\* token otherwise; a key of A with a token of B is never admitted as A on
\* the grants embedded in B's token.
C29_GrantsFromThePrincipalsCredential ==
    (resp.op \in GuardedEndpoints /\ resp.status = HTTP_200_OK) =>
        IF KeyPathPrincipal(resp.in_key) # None
        THEN /\ resp.user = KeyPathPrincipal(resp.in_key)
             /\ Satisfies(resp.op, resp.in_req,
                          IF resp.op = "admin_only_endpoint"
                          THEN KeyDerivedRoles(resp.in_key)
                          ELSE KeyDerivedPermissions(resp.in_key))
        ELSE /\ resp.user = TokenPathPrincipal(resp.in_tok)
             /\ Satisfies(resp.op, resp.in_req,
                          TokenClaims(resp.in_tok,
                                      IF resp.op = "admin_only_endpoint"
                                      THEN "roles" ELSE "permissions"))

\* the principal a credential of a checker request belongs to is inactive
InactiveKeyOwner(api_key) ==
    \E i \in ValidKeyIds(api_key) :
        keys[i].user_id \in DOMAIN users /\ ~users[keys[i].user_id].is_active

InactiveTokenSubject(credentials) ==
    /\ credentials.present
    /\ credentials.sub \in DOMAIN users
    /\ ~users[credentials.sub].is_active

\* C30: a permission or role check never passes on the strength of a
\* credential whose principal is deactivated: a request whose only
\* credentials are a valid key owned by an inactive principal, an unexpired
\* token of an inactive principal, or both, is refused by the checkers.
C30_InactivePrincipalContributesNothing ==
    (/\ resp.op \in {"permission_checker", "role_checker"}
     /\ resp.in_req # {}
     /\ (resp.in_key = None \/ ValidKeyIds(resp.in_key) = {}
            \/ InactiveKeyOwner(resp.in_key))
     /\ (~resp.in_tok.present \/ InactiveTokenSubject(resp.in_tok)))
    => resp.status = HTTP_403_FORBIDDEN

====
